---- MODULE Spec2Model ----
(***************************************************************************)
(* Ray-reflection geometry of the two-mirror periscope                     *)
(* (src/periscope_streamlit.py).                                           *)
(*                                                                         *)
(* Python floats are modelled as exact numbers of the field Q(sqrt 2): a   *)
(* number is a triple <<p, q, d>> standing for (p + q*sqrt(2)) / d, kept   *)
(* in lowest terms with d > 0, so that equal numbers are equal triples.    *)
(* The field holds cos and sin of every multiple of 45 degrees exactly.    *)
(* Rounding of the floating-point operations is not modelled: an equality  *)
(* proved here holds of the code up to the rounding error of a double.     *)
(***************************************************************************)
EXTENDS Integers, Sequences, FiniteSets, TLC

(* ---------- numbers ---------------------------------------------------- *)

IAbs(n) == IF n < 0 THEN -n ELSE n

RECURSIVE GCD(_, _)
GCD(a, b) == IF b = 0 THEN a ELSE GCD(b, a % b)

LCM(a, b) == (a \div GCD(a, b)) * b

Norm(p, q, d) ==
    LET g == GCD(GCD(IAbs(p), IAbs(q)), IAbs(d))
        sg == IF d < 0 THEN -1 ELSE 1
    IN  <<sg * (p \div g), sg * (q \div g), sg * (d \div g)>>

Num(n) == <<n, 0, 1>>
Rat(n, d) == Norm(n, 0, d)
Zero == Num(0)
One == Num(1)
Two == Num(2)

Neg(a) == <<-a[1], -a[2], a[3]>>

Add(a, b) ==
    LET l == LCM(a[3], b[3])
        ka == l \div a[3]
        kb == l \div b[3]
    IN  Norm(a[1] * ka + b[1] * kb, a[2] * ka + b[2] * kb, l)

Sub(a, b) == Add(a, Neg(b))

Mul(a, b) ==
    LET g1 == GCD(GCD(IAbs(a[1]), IAbs(a[2])), b[3])
        g2 == GCD(GCD(IAbs(b[1]), IAbs(b[2])), a[3])
        ap == a[1] \div g1
        aq == a[2] \div g1
        bp == b[1] \div g2
        bq == b[2] \div g2
        ad == a[3] \div g2
        bd == b[3] \div g1
    IN  IF (a[1] = 0 /\ a[2] = 0) \/ (b[1] = 0 /\ b[2] = 0) THEN Zero
        ELSE Norm(ap * bp + 2 * aq * bq, ap * bq + aq * bp, ad * bd)

\* 1 / ((p + q*sqrt 2)/d) = d*(p - q*sqrt 2) / (p*p - 2*q*q)
Inv(a) ==
    LET g == GCD(IAbs(a[1]), IAbs(a[2]))
        p == a[1] \div g
        q == a[2] \div g
    IN  Mul(Norm(p, -q, p * p - 2 * q * q), Rat(a[3], g))

Div(a, b) == Mul(a, Inv(b))

\* sign of p + q*sqrt 2; squares are taken only when 1 < |p|/|q| < 2
Sign(a) ==
    LET p == a[1]
        q == a[2]
        sp == IF p < 0 THEN -1 ELSE IF p > 0 THEN 1 ELSE 0
        sq == IF q < 0 THEN -1 ELSE IF q > 0 THEN 1 ELSE 0
    IN  IF sq = 0 THEN sp
        ELSE IF sp = 0 \/ sp = sq THEN sq
        ELSE IF IAbs(p) <= IAbs(q) THEN sq
        ELSE IF IAbs(p) >= 2 * IAbs(q) THEN sp
        ELSE IF p * p > 2 * q * q THEN sp ELSE sq

Abs(a) == IF Sign(a) < 0 THEN Neg(a) ELSE a
Lt(a, b) == Sign(Sub(a, b)) < 0
Le(a, b) == Sign(Sub(a, b)) <= 0

MaxRoot == 2000

\* integer square root of a perfect square, -1 otherwise
ISqrt(n) ==
    LET top == IF n < MaxRoot THEN n ELSE MaxRoot
    IN  IF n >= 0 /\ \E k \in 0..top : k * k = n
        THEN CHOOSE k \in 0..top : k * k = n
        ELSE -1

\* square root of a non-negative rational: r or r*sqrt(2) with r rational
Sqrt(a) ==
    LET n == a[1] * a[3]
    IN  CASE a[2] = 0 /\ ISqrt(n) >= 0 -> Rat(ISqrt(n), a[3])
          [] a[2] = 0 /\ ISqrt(n) < 0 /\ ISqrt(2 * n) >= 0 ->
                Norm(0, ISqrt(2 * n), 2 * a[3])

Hypot(x, y) == Sqrt(Add(Mul(x, x), Mul(y, y)))

(* ---------- geometry helpers ------------------------------------------- *)

HalfRoot2 == <<0, 1, 2>>

\* (cos, sin) of an angle in degrees; exact on the multiples of 45
unit_vector_from_angle(deg) ==
    LET a == deg % 360
    IN  CASE a = 0   -> <<One, Zero>>
          [] a = 45  -> <<HalfRoot2, HalfRoot2>>
          [] a = 90  -> <<Zero, One>>
          [] a = 135 -> <<Neg(HalfRoot2), HalfRoot2>>
          [] a = 180 -> <<Neg(One), Zero>>
          [] a = 225 -> <<Neg(HalfRoot2), Neg(HalfRoot2)>>
          [] a = 270 -> <<Zero, Neg(One)>>
          [] a = 315 -> <<HalfRoot2, Neg(HalfRoot2)>>

\* variant: the normal taken as (my, mx), not perpendicular to the mirror
reflect_vector_WrongNormal(v, m) ==
    LET nx == m[2]
        ny == m[1]
        dot == Add(Mul(v[1], nx), Mul(v[2], ny))
        rx == Sub(v[1], Mul(Mul(Two, dot), nx))
        ry == Sub(v[2], Mul(Mul(Two, dot), ny))
        length == Hypot(rx, ry)
    IN  IF length = Zero THEN <<Zero, Zero>>
        ELSE <<Div(rx, length), Div(ry, length)>>

\* variant: the factor 2 of r = v - 2*dot*n dropped
reflect_vector_NoDouble(v, m) ==
    LET nx == Neg(m[2])
        ny == m[1]
        dot == Add(Mul(v[1], nx), Mul(v[2], ny))
        rx == Sub(v[1], Mul(dot, nx))
        ry == Sub(v[2], Mul(dot, ny))
        length == Hypot(rx, ry)
    IN  IF length = Zero THEN <<Zero, Zero>>
        ELSE <<Div(rx, length), Div(ry, length)>>

\* variant: a zero-length result replaced by the direction (1, 0)
reflect_vector_DefaultDir(v, m) ==
    LET nx == Neg(m[2])
        ny == m[1]
        dot == Add(Mul(v[1], nx), Mul(v[2], ny))
        rx == Sub(v[1], Mul(Mul(Two, dot), nx))
        ry == Sub(v[2], Mul(Mul(Two, dot), ny))
        length == Hypot(rx, ry)
    IN  IF length = Zero THEN <<One, Zero>>
        ELSE <<Div(rx, length), Div(ry, length)>>

reflect_vector(v, m) ==
    LET vx == v[1]
        vy == v[2]
        mx == m[1]
        my == m[2]
        nx == Neg(my)
        ny == mx
        dot == Add(Mul(vx, nx), Mul(vy, ny))
        rx == Sub(vx, Mul(Mul(Two, dot), nx))
        ry == Sub(vy, Mul(Mul(Two, dot), ny))
        length == Hypot(rx, ry)
    IN  IF length = Zero THEN <<Zero, Zero>>
        ELSE <<Div(rx, length), Div(ry, length)>>

\* the tolerance 1e-6 of the parallel test
Eps == <<1, 0, 1000000>>

NoHit == <<>>

Determinant(v, m) == Add(Mul(Neg(v[1]), m[2]), Mul(m[1], v[2]))

\* the body of intersect with the acceptance test left open
IntersectWith(p0, v, c, m, length, Reject(_, _)) ==
    LET bx == Sub(c[1], p0[1])
        by == Sub(c[2], p0[2])
        D == Determinant(v, m)
        s == Div(Sub(Mul(bx, Neg(m[2])), Mul(Neg(m[1]), by)), D)
        t == Div(Sub(Mul(v[1], by), Mul(v[2], bx)), D)
    IN  IF Lt(Abs(D), Eps) THEN NoHit
        ELSE IF Reject(s, t) THEN NoHit
        ELSE <<<<Add(p0[1], Mul(s, v[1])), Add(p0[2], Mul(s, v[2]))>>, s, t>>

\* variant: |t| compared with the whole length of the mirror
intersect_FullLength(p0, v, c, m, length) ==
    LET Reject(s, t) == Lt(s, Zero) \/ Lt(length, Abs(t))
    IN  IntersectWith(p0, v, c, m, length, Reject)

\* variant: an intersection at the ray's origin (s = 0) rejected
intersect_StrictS(p0, v, c, m, length) ==
    LET Reject(s, t) == Le(s, Zero) \/ Lt(Div(length, Two), Abs(t))
    IN  IntersectWith(p0, v, c, m, length, Reject)

\* variant: t compared without abs
intersect_NoAbs(p0, v, c, m, length) ==
    LET Reject(s, t) == Lt(s, Zero) \/ Lt(Div(length, Two), t)
    IN  IntersectWith(p0, v, c, m, length, Reject)

\* Returns <<point, s, t>> or NoHit (None)
intersect_ray_with_segment(p0, v, c, m, length) ==
    LET x0 == p0[1]
        y0 == p0[2]
        vx == v[1]
        vy == v[2]
        cx == c[1]
        cy == c[2]
        mx == m[1]
        my == m[2]
        bx == Sub(cx, x0)
        by == Sub(cy, y0)
        D == Determinant(v, m)
        s == Div(Sub(Mul(bx, Neg(my)), Mul(Neg(mx), by)), D)
        t == Div(Sub(Mul(vx, by), Mul(vy, bx)), D)
        ix == Add(x0, Mul(s, vx))
        iy == Add(y0, Mul(s, vy))
    IN  IF Lt(Abs(D), Eps) THEN NoHit
        ELSE IF Lt(s, Zero) \/ Lt(Div(length, Two), Abs(t)) THEN NoHit
        ELSE <<<<ix, iy>>, s, t>>

(* ---------- state ------------------------------------------------------- *)

VARIABLES
    top_angle_deg,      \* slider values handed to draw_ray_path
    bottom_angle_deg,
    entry_height,
    pc,                 \* position in draw_ray_path
    ray_start,          \* the incoming ray's origin
    ray_dir,            \* the current direction of the ray
    p1,                 \* intersection point on the top mirror
    p2,                 \* intersection point on the bottom mirror
    segs,               \* the red lines plotted on the axes, in order
    texts,              \* the labels written on the axes, in order
    tested,             \* the mirrors intersect was called on, in order
    hits,               \* how many of those calls returned a point
    ref,                \* inputs and lines of one earlier run
    gop, gv, gm, gp0, gc, glen,   \* a call of a geometry helper: inputs
    gr, gh1, gh2                  \* and results

tracer == <<top_angle_deg, bottom_angle_deg, entry_height, pc, ray_start,
            ray_dir, p1, p2, segs, texts, tested, hits, ref>>
geo == <<gop, gv, gm, gp0, gc, glen, gr, gh1, gh2>>
vars == <<tracer, geo>>

(* ---------- the sliders of main ---------------------------------------- *)

TopMin == 90
TopMax == 170
TopDefault == 135
BottomMin == -80
BottomMax == 10
BottomDefault == -45
HeightMin == 350
HeightMax == 520
HeightStep == 5
HeightDefault == 450

\* the slider positions whose mirror direction is exact in the field
TopAngles == {a \in TopMin..TopMax : a % 45 = 0}
BottomAngles == {a \in BottomMin..BottomMax : a % 45 = 0}
EntryHeights ==
    {h \in HeightMin..HeightMax : (h - HeightMin) % HeightStep = 0}

(* ---------- draw_ray_path ---------------------------------------------- *)

mirror_length == Num(150)
top_center == <<Num(400), Num(450)>>
bottom_center == <<Num(400), Num(150)>>
top_m == unit_vector_from_angle(top_angle_deg)
bottom_m == unit_vector_from_angle(bottom_angle_deg)

EscapeX == 750
FarFactor == 1000

Unset == <<>>
NoRef == [set |-> FALSE, top |-> 0, bottom |-> 0, h |-> 0, out |-> <<>>]
ThisRun == [set |-> TRUE, top |-> top_angle_deg, bottom |-> bottom_angle_deg,
            h |-> entry_height, out |-> segs]

Far(p, d) == <<Add(p[1], Mul(d[1], Num(FarFactor))),
               Add(p[2], Mul(d[2], Num(FarFactor)))>>

\* variant: the ray's direction left over from the previous run
Enter_KeepsDirection(top, bottom, h) ==
    /\ top_angle_deg' = top
    /\ bottom_angle_deg' = bottom
    /\ entry_height' = h
    /\ ray_start' = <<Num(100), Num(h)>>
    /\ ray_dir' = ray_dir
    /\ p1' = Unset
    /\ p2' = Unset
    /\ segs' = <<>>
    /\ texts' = <<>>
    /\ tested' = <<>>
    /\ hits' = 0
    /\ pc' = "top"

\* fig, ax = plt.subplots() and the first lines of draw_ray_path
Enter(top, bottom, h) ==
    /\ top_angle_deg' = top
    /\ bottom_angle_deg' = bottom
    /\ entry_height' = h
    /\ ray_start' = <<Num(100), Num(h)>>
    /\ ray_dir' = <<One, Zero>>
    /\ p1' = Unset
    /\ p2' = Unset
    /\ segs' = <<>>
    /\ texts' = <<>>
    /\ tested' = <<>>
    /\ hits' = 0
    /\ pc' = "top"

TracerInit ==
    /\ top_angle_deg = TopDefault
    /\ bottom_angle_deg = BottomDefault
    /\ entry_height = HeightDefault
    /\ ray_start = <<Num(100), Num(HeightDefault)>>
    /\ ray_dir = <<One, Zero>>
    /\ p1 = Unset
    /\ p2 = Unset
    /\ segs = <<>>
    /\ texts = <<>>
    /\ tested = <<>>
    /\ hits = 0
    /\ pc = "top"
    /\ ref = NoRef

GeoOff ==
    /\ gop = "off"
    /\ gv = <<Zero, Zero>>
    /\ gm = <<One, Zero>>
    /\ gp0 = <<Zero, Zero>>
    /\ gc = <<Zero, Zero>>
    /\ glen = Zero
    /\ gr = Unset
    /\ gh1 = NoHit
    /\ gh2 = NoHit

Init == TracerInit /\ GeoOff

\* variant: a miss drawn to origin + 1000*direction
TopStep_FarEscape ==
    /\ pc = "top"
    /\ LET hit1 == intersect_ray_with_segment(ray_start, ray_dir,
                                              top_center, top_m, mirror_length)
       IN  /\ tested' = Append(tested, "top")
           /\ IF hit1 = NoHit
              THEN /\ segs' = Append(segs,
                        <<ray_start, Far(ray_start, ray_dir)>>)
                   /\ texts' = Append(texts, "Incoming light")
                   /\ pc' = "done"
                   /\ UNCHANGED <<p1, ray_dir, hits>>
              ELSE /\ p1' = hit1[1]
                   /\ segs' = Append(segs, <<ray_start, hit1[1]>>)
                   /\ ray_dir' = reflect_vector(ray_dir, top_m)
                   /\ hits' = hits + 1
                   /\ pc' = "bottom"
                   /\ UNCHANGED texts
    /\ UNCHANGED <<top_angle_deg, bottom_angle_deg, entry_height, ray_start,
                   p2, ref>>
    /\ UNCHANGED geo

\* variant: the reflection taken in the bottom mirror
TopStep_WrongMirror ==
    /\ pc = "top"
    /\ LET hit1 == intersect_ray_with_segment(ray_start, ray_dir,
                                              top_center, top_m, mirror_length)
       IN  /\ tested' = Append(tested, "top")
           /\ IF hit1 = NoHit
              THEN /\ segs' = Append(segs,
                        <<ray_start, <<Num(EscapeX), ray_start[2]>>>>)
                   /\ texts' = Append(texts, "Incoming light")
                   /\ pc' = "done"
                   /\ UNCHANGED <<p1, ray_dir, hits>>
              ELSE /\ p1' = hit1[1]
                   /\ segs' = Append(segs, <<ray_start, hit1[1]>>)
                   /\ ray_dir' = reflect_vector(ray_dir, bottom_m)
                   /\ hits' = hits + 1
                   /\ pc' = "bottom"
                   /\ UNCHANGED texts
    /\ UNCHANGED <<top_angle_deg, bottom_angle_deg, entry_height, ray_start,
                   p2, ref>>
    /\ UNCHANGED geo

\* 1) To top mirror, and the reflection from it
TopStep ==
    /\ pc = "top"
    /\ LET hit1 == intersect_ray_with_segment(ray_start, ray_dir,
                                              top_center, top_m, mirror_length)
       IN  /\ tested' = Append(tested, "top")
           /\ IF hit1 = NoHit
              THEN /\ segs' = Append(segs,
                        <<ray_start, <<Num(EscapeX), ray_start[2]>>>>)
                   /\ texts' = Append(texts, "Incoming light")
                   /\ pc' = "done"
                   /\ UNCHANGED <<p1, ray_dir, hits>>
              ELSE /\ p1' = hit1[1]
                   /\ segs' = Append(segs, <<ray_start, hit1[1]>>)
                   /\ ray_dir' = reflect_vector(ray_dir, top_m)
                   /\ hits' = hits + 1
                   /\ pc' = "bottom"
                   /\ UNCHANGED texts
    /\ UNCHANGED <<top_angle_deg, bottom_angle_deg, entry_height, ray_start,
                   p2, ref>>
    /\ UNCHANGED geo

\* variant: the return after a miss left out
BottomStep_NoReturn ==
    /\ pc = "bottom"
    /\ LET hit2 == intersect_ray_with_segment(p1, ray_dir, bottom_center,
                                              bottom_m, mirror_length)
       IN  /\ tested' = Append(tested, "bottom")
           /\ IF hit2 = NoHit
              THEN /\ segs' = Append(segs, <<p1, Far(p1, ray_dir)>>)
                   /\ texts' = Append(texts, "Incoming light")
                   /\ pc' = "final"
                   /\ UNCHANGED <<p2, ray_dir, hits>>
              ELSE /\ p2' = hit2[1]
                   /\ segs' = Append(segs, <<p1, hit2[1]>>)
                   /\ ray_dir' = reflect_vector(ray_dir, bottom_m)
                   /\ hits' = hits + 1
                   /\ pc' = "final"
                   /\ UNCHANGED texts
    /\ UNCHANGED <<top_angle_deg, bottom_angle_deg, entry_height, ray_start,
                   p1, ref>>
    /\ UNCHANGED geo

\* 2) To bottom mirror, and the reflection from it
BottomStep ==
    /\ pc = "bottom"
    /\ LET hit2 == intersect_ray_with_segment(p1, ray_dir, bottom_center,
                                              bottom_m, mirror_length)
       IN  /\ tested' = Append(tested, "bottom")
           /\ IF hit2 = NoHit
              THEN /\ segs' = Append(segs, <<p1, Far(p1, ray_dir)>>)
                   /\ texts' = Append(texts, "Incoming light")
                   /\ pc' = "done"
                   /\ UNCHANGED <<p2, ray_dir, hits>>
              ELSE /\ p2' = hit2[1]
                   /\ segs' = Append(segs, <<p1, hit2[1]>>)
                   /\ ray_dir' = reflect_vector(ray_dir, bottom_m)
                   /\ hits' = hits + 1
                   /\ pc' = "final"
                   /\ UNCHANGED texts
    /\ UNCHANGED <<top_angle_deg, bottom_angle_deg, entry_height, ray_start,
                   p1, ref>>
    /\ UNCHANGED geo

\* 3) Final outgoing ray
FinalStep ==
    /\ pc = "final"
    /\ segs' = Append(segs, <<p2, Far(p2, ray_dir)>>)
    /\ texts' = texts \o <<"Incoming light", "Outgoing light">>
    /\ pc' = "done"
    /\ UNCHANGED <<top_angle_deg, bottom_angle_deg, entry_height, ray_start,
                   ray_dir, p1, p2, tested, hits, ref>>
    /\ UNCHANGED geo

\* a slider is moved (or not) and the script runs again on a new figure
Rerun ==
    /\ pc = "done"
    /\ \E top \in TopAngles, bottom \in BottomAngles, h \in EntryHeights :
          Enter(top, bottom, h)
    /\ UNCHANGED ref
    /\ UNCHANGED geo

Next == TopStep \/ BottomStep \/ FinalStep \/ Rerun

Spec == Init /\ [][Next]_vars

\* the same, with an observer that may keep the finished run for comparison
RerunObserved ==
    /\ pc = "done"
    /\ \E top \in TopAngles, bottom \in BottomAngles, h \in EntryHeights :
          Enter(top, bottom, h)
    /\ ref' \in {ref, ThisRun}
    /\ UNCHANGED geo

NextObserved == TopStep \/ BottomStep \/ FinalStep \/ RerunObserved

SpecObserved == Init /\ [][NextObserved]_vars

(* ---------- the geometry helpers on their own --------------------------- *)

MaxCoord == 2
MaxLen == 2

V(a, b, d) == <<Rat(a, d), Rat(b, d)>>
ZeroVec == <<Zero, Zero>>

AxisDirs == {V(1, 0, 1), V(0, 1, 1), V(-1, 0, 1), V(0, -1, 1)}
DiagDirs == {unit_vector_from_angle(a) : a \in {45, 135, 225, 315}}
TripleDirs == {V(sx * 3, sy * 4, 5) : sx \in {-1, 1}, sy \in {-1, 1}}
                 \cup {V(sx * 4, sy * 3, 5) : sx \in {-1, 1}, sy \in {-1, 1}}
UnitDirs == AxisDirs \cup DiagDirs \cup TripleDirs

\* mirror directions at a slope of 5e-7 and of 1e-6 to the x axis
ShallowDirs == {<<One, Rat(1, 2000000)>>, <<One, Rat(1, 1000000)>>}

Points == {<<Num(x), Num(y)>> : x \in 0..MaxCoord, y \in 0..MaxCoord}
Centres == {<<Num(x), Num(1)>> : x \in 1..MaxCoord}
Lengths == {Num(k) : k \in 1..MaxLen}

Dot(a, b) == Add(Mul(a[1], b[1]), Mul(a[2], b[2]))
IsUnit(a) == Dot(a, a) = One
NegVec(a) == <<Neg(a[1]), Neg(a[2])>>

GeoInit ==
    /\ gop = "init"
    /\ gv \in UnitDirs \cup {ZeroVec}
    /\ gm \in UnitDirs \cup ShallowDirs
    /\ gp0 \in Points
    /\ gc \in Centres
    /\ glen \in Lengths
    /\ gr = Unset
    /\ gh1 = NoHit
    /\ gh2 = NoHit

InitGeo == TracerInit /\ GeoInit

\* reflect_vector(v, m), m a unit vector along the mirror
GReflect ==
    /\ gop = "init"
    /\ gm \in UnitDirs
    /\ gr' = reflect_vector(gv, gm)
    /\ gop' = "reflected"
    /\ UNCHANGED <<gv, gm, gp0, gc, glen, gh1, gh2>>
    /\ UNCHANGED tracer

\* the result reflected once more in the same mirror
GReflectAgain ==
    /\ gop = "reflected"
    /\ gr' = reflect_vector(gr, gm)
    /\ gop' = "reflected twice"
    /\ UNCHANGED <<gv, gm, gp0, gc, glen, gh1, gh2>>
    /\ UNCHANGED tracer

\* the reflected direction handed to intersect, as draw_ray_path does
GReflectThenIntersect ==
    /\ gop = "reflected"
    /\ gh1' = intersect_ray_with_segment(gp0, gr, gc, gm, glen)
    /\ gop' = "reflected, intersected"
    /\ UNCHANGED <<gv, gm, gp0, gc, glen, gr, gh2>>
    /\ UNCHANGED tracer

GIntersect ==
    /\ gop = "init"
    /\ gh1' = intersect_ray_with_segment(gp0, gv, gc, gm, glen)
    /\ gop' = "intersected"
    /\ UNCHANGED <<gv, gm, gp0, gc, glen, gr, gh2>>
    /\ UNCHANGED tracer

\* the same call with the mirror's direction reversed
GIntersectReversed ==
    /\ gop = "intersected"
    /\ gh2' = intersect_ray_with_segment(gp0, gv, gc, NegVec(gm), glen)
    /\ gop' = "intersected both"
    /\ UNCHANGED <<gv, gm, gp0, gc, glen, gr, gh1>>
    /\ UNCHANGED tracer

NextGeo == GReflect \/ GReflectAgain \/ GReflectThenIntersect
               \/ GIntersect \/ GIntersectReversed

SpecGeo == InitGeo /\ [][NextGeo]_vars

(* ---------- properties of a trace --------------------------------------- *)

Pt(x, y) == <<Num(x), Num(y)>>
Cross(a, b) == Sub(Mul(a[1], b[2]), Mul(a[2], b[1]))
VSub(a, b) == <<Sub(a[1], b[1]), Sub(a[2], b[2])>>
VAdd(a, b) == <<Add(a[1], b[1]), Add(a[2], b[2])>>
Scale(k, a) == <<Mul(k, a[1]), Mul(k, a[2])>>
Incoming == <<One, Zero>>
Last(q) == q[Len(q)]

\* C1: with topAngle 135, bottomAngle -45 and entryHeight 450 the ray hits
\* the top mirror at (400,450), leaves it in direction (0,-1), hits the
\* bottom mirror at (400,150), leaves it in direction (1,0), and the trace
\* emits three segments.
C1_Scenario ==
    (top_angle_deg = 135 /\ bottom_angle_deg = -45 /\ entry_height = 450) =>
        /\ pc = "bottom" =>
              /\ p1 = Pt(400, 450)
              /\ ray_dir = <<Zero, Neg(One)>>
              /\ segs = << <<Pt(100, 450), Pt(400, 450)>> >>
        /\ pc = "final" =>
              /\ p2 = Pt(400, 150)
              /\ ray_dir = <<One, Zero>>
        /\ pc = "done" =>
              /\ tested = <<"top", "bottom">>
              /\ hits = 2
              /\ ray_dir = <<One, Zero>>
              /\ segs = << <<Pt(100, 450), Pt(400, 450)>>,
                           <<Pt(400, 450), Pt(400, 150)>>,
                           <<Pt(400, 150), Pt(1400, 150)>> >>

C1_Witness ==
    /\ top_angle_deg = 135 /\ bottom_angle_deg = -45 /\ entry_height = 450
    /\ pc = "done"
    /\ Len(segs) = 3

C3_SegmentCount ==
    /\ Len(segs) <= 3
    /\ hits \in 0..2
    /\ pc # "done" => Len(segs) = hits
    /\ pc = "done" =>
          /\ Len(segs) = hits + 1
          /\ Len(segs) \in 1..3
          /\ hits = 0 => tested = <<"top">>
          /\ hits >= 1 => tested = <<"top", "bottom">>

C3_Witness == pc = "done" /\ hits = 1 /\ Len(segs) = 2

\* the line y = entryHeight does not meet the top mirror's segment
TopOutOfSpan ==
    \/ top_m[2] = Zero
    \/ Lt(Mul(Num(75), Abs(top_m[2])), Abs(Num(entry_height - 450)))

\* C4: when the incoming ray passes outside the top mirror's span the trace
\* records no hit, never tests the bottom mirror, and emits exactly one
\* segment, from (100, entryHeight) rightward at the same height.
C4_TopMissed ==
    TopOutOfSpan =>
        /\ hits = 0
        /\ pc \in {"top", "done"}
        /\ \A i \in 1..Len(tested) : tested[i] # "bottom"
        /\ pc = "done" =>
              /\ Len(segs) = 1
              /\ segs[1][1] = Pt(100, entry_height)
              /\ segs[1][2][2] = Num(entry_height)
              /\ Lt(Num(100), segs[1][2][1])

C4_Witness == TopOutOfSpan /\ pc = "done" /\ top_angle_deg = 135

\* C9: a finished run emits the same segments as any earlier run with the
\* same topAngle, bottomAngle and entryHeight, whatever ran in between.
C9_SameInputsSameOutput ==
    (/\ pc = "done"
     /\ ref.set
     /\ ref.top = top_angle_deg
     /\ ref.bottom = bottom_angle_deg
     /\ ref.h = entry_height) => segs = ref.out

C9_Witness ==
    /\ pc = "done"
    /\ ref.set
    /\ ref.top = top_angle_deg
    /\ ref.bottom = bottom_angle_deg
    /\ ref.h = entry_height
    /\ Len(segs) = 3
    /\ Len(tested) = 2

\* the point p lies on the mirror with centre c and unit direction m
OnMirror(p, c, m) ==
    /\ Cross(VSub(p, c), m) = Zero
    /\ Le(Abs(Dot(VSub(p, c), m)), Num(75))

\* the segment g points the way a ray of direction d reflected in a mirror
\* of direction m travels: equal angle to the mirror, on its other side
LeavesMirror(g, d, m) ==
    LET w == VSub(g[2], g[1])
    IN  /\ Add(Mul(Dot(w, m), Cross(d, m)), Mul(Cross(w, m), Dot(d, m))) = Zero
        /\ Sign(Sub(Mul(Dot(w, m), Dot(d, m)),
                    Mul(Cross(w, m), Cross(d, m)))) > 0

IsReflection(d, r, m) ==
    /\ Dot(r, m) = Dot(d, m)
    /\ Cross(r, m) = Neg(Cross(d, m))

\* C10: the segments form one connected path in mirror order: the first
\* starts at (100, entryHeight), each later one starts where the previous
\* one ends, that point being the intersection on the mirror just hit (top
\* before bottom), and the direction after a hit is the previous direction
\* reflected in the mirror just hit.
C10_ConnectedPath ==
    /\ Len(segs) >= 1 =>
          /\ segs[1][1] = Pt(100, entry_height)
          /\ Cross(VSub(segs[1][2], segs[1][1]), Incoming) = Zero
    /\ \A i \in 2..Len(segs) : segs[i][1] = segs[i - 1][2]
    /\ hits >= 1 =>
          /\ segs[1][2] = p1
          /\ OnMirror(p1, top_center, top_m)
          /\ Len(segs) >= 2 => LeavesMirror(segs[2], Incoming, top_m)
    /\ hits = 1 => IsReflection(Incoming, ray_dir, top_m)
    /\ hits = 2 =>
          /\ segs[2][2] = p2
          /\ OnMirror(p2, bottom_center, bottom_m)
          /\ Len(segs) >= 3 =>
                LeavesMirror(segs[3], VSub(segs[2][2], segs[2][1]), bottom_m)

C10_Witness == pc = "done" /\ hits = 2 /\ Len(segs) = 3 /\ bottom_angle_deg = 0

(* ---------- properties of the geometry helpers --------------------------- *)

\* the claim's D, and the solution (s, t) of p0 + s*v = c + t*m
C5_D == Sub(Mul(gm[1], gv[2]), Mul(gv[1], gm[2]))
C5_s == Div(Cross(VSub(gc, gp0), gm), Cross(gv, gm))
C5_t == Div(Cross(VSub(gc, gp0), gv), Cross(gv, gm))

\* C5: intersect returns a result exactly when |D| >= 1e-6, s >= 0 and
\* |t| <= length/2 (s = 0 and |t| = length/2 accepted); the point returned
\* is rayOrigin + s*rayDir = mirrorCenter + t*mirrorDir; a ray along the
\* mirror (rayDir = mirrorDir or -mirrorDir) gets no intersection.
C5_Intersect ==
    gop = "intersected" =>
        /\ Lt(Abs(C5_D), Eps) => gh1 = NoHit
        /\ ~Lt(Abs(C5_D), Eps) =>
              /\ VAdd(gp0, Scale(C5_s, gv)) = VAdd(gc, Scale(C5_t, gm))
              /\ (gh1 # NoHit) <=>
                    (Le(Zero, C5_s) /\ Le(Abs(C5_t), Div(glen, Two)))
              /\ gh1 # NoHit =>
                    /\ gh1[2] = C5_s
                    /\ gh1[3] = C5_t
                    /\ gh1[1] = VAdd(gp0, Scale(gh1[2], gv))
                    /\ gh1[1] = VAdd(gc, Scale(gh1[3], gm))
        /\ (gv = gm \/ gv = NegVec(gm)) => gh1 = NoHit

\* a hit at both boundaries: s = 0 and |t| = length/2
C5_Witness ==
    /\ gop = "intersected"
    /\ gh1 # NoHit
    /\ gh1[2] = Zero
    /\ Abs(gh1[3]) = Div(glen, Two)

\* C6: intersect with mirror direction m and with -m agree on whether there
\* is an intersection, and on the point and s; the two t are opposite.
C6_MirrorSign ==
    gop = "intersected both" =>
        /\ (gh1 = NoHit) <=> (gh2 = NoHit)
        /\ gh1 # NoHit =>
              /\ gh2[1] = gh1[1]
              /\ gh2[2] = gh1[2]
              /\ gh2[3] = Neg(gh1[3])

C6_Witness ==
    /\ gop = "intersected both"
    /\ gh1 # NoHit
    /\ gh1[3] # Zero
    /\ gm \in TripleDirs

\* C7: for unit v and unit m, reflect(reflect(v, m), m) = v and
\* reflect(v, m) has magnitude 1.
C7_Involution ==
    IsUnit(gv) =>
        /\ gop = "reflected" => Dot(gr, gr) = One
        /\ gop = "reflected twice" => gr = gv

C7_Witness ==
    /\ gop = "reflected twice"
    /\ gv \in TripleDirs
    /\ gm \in DiagDirs
    /\ gr = gv

\* C8: reflect of the zero vector is the zero vector, and a ray whose
\* direction is the zero vector gets no intersection, whatever the origin,
\* the mirror's centre, direction and length.
C8_DeadRay ==
    /\ (gop = "reflected" /\ gv = ZeroVec) => gr = ZeroVec
    /\ (gop = "intersected" /\ gv = ZeroVec) => gh1 = NoHit
    /\ (gop = "reflected, intersected" /\ gr = ZeroVec) => gh1 = NoHit

C8_Witness ==
    /\ gop = "reflected, intersected"
    /\ gv = ZeroVec
    /\ gr = ZeroVec
    /\ gh1 = NoHit

====
